---- MODULE Spec2Model ----
(***************************************************************************)
(* Model of the CodeBuddy "smart notes" persistence layer: the             *)
(* StorageManager facade over IndexedDB with its localStorage fallback,    *)
(* and the startup wait of SmartNotesApp that selects the backend.         *)
(*                                                                         *)
(* Encoding of JavaScript values:                                          *)
(*   - strings whose characters matter are sequences of one-character     *)
(*     strings (<<"a","b">>); the empty sequence is the empty string;      *)
(*   - a field that is absent, undefined, null, "" or 0 (all falsy for     *)
(*     the `x || default` idiom) is the falsy value of its type: NoId,     *)
(*     NoTime, <<>> or "";                                                 *)
(*   - ISO timestamps are the integer clock readings they were made from; *)
(*   - a value stored in or returned from a store is tagged with its       *)
(*     JavaScript shape: Undefined, Arr(seq), Obj(record), Key(k).         *)
(***************************************************************************)
EXTENDS Integers, Sequences, FiniteSets, TLC

VARIABLES
    db,               \* StorageManager.db: "null" or "handle"
    useLocalStorage,  \* StorageManager.useLocalStorage (undefined = FALSE)
    indexedDB,        \* contents of the four object stores of SmartNotesDB
    localStorage,     \* the four localStorage entries used by the fallback
    openRequest,      \* indexedDB.open request: "pending", "success", "error"
    openAttempts,     \* number of calls of openDatabase
    now,              \* current reading of the clock (Date)
    generated,        \* number of ids produced by generateId
    lastOp,           \* the facade call that completed last
    lastRes,          \* its outcome: [ok, val]
    lastRoute,        \* backend that executed it: "idb", "ls", "none"
    roundTrip,        \* progress of export, clear, import: 0, 1, 2, 3
    exported,         \* document of the exportData that began the round trip
    saves,            \* number of single-record writes made so far
    twin,             \* a second StorageManager, on the fallback backend
    twinRes,          \* outcome of the last call on the twin
    transactions,     \* IndexedDB transactions of the facade call in progress
    promise,          \* the promise that facade call returned
    updating,         \* the updateTaskStatus call between its read and write
    modules,          \* the window globals assigned besides storageManager
    isInitialized,    \* window.aiEngine.isInitialized
    waitPc,           \* position of SmartNotesApp.waitForModules
    elapsed,          \* Date.now() - startTime, in timer periods
    currentNote,      \* NoteEditor.currentNote: null or the note being edited
    titleEl,          \* value of the #noteTitle input
    editorEl,         \* value of the #noteEditor textarea
    noteList,         \* NoteEditor.notes, the list loadNotes keeps
    unsavedMark,      \* the save button carries the class 'unsaved'
    writes,           \* storage writes the editor issued that have not settled
    serial,           \* number of note objects that became currentNote
    savedIds          \* ids under which the current note object was saved

vars == <<db, useLocalStorage, indexedDB, localStorage, openRequest,
          openAttempts, now, generated, lastOp, lastRes, lastRoute,
          roundTrip, exported, saves, twin, twinRes,
          transactions, promise, updating,
          modules, isInitialized, waitPc, elapsed,
          currentNote, titleEl, editorEl, noteList, unsavedMark, writes,
          serial, savedIds>>

(***************************************************************************)
(* Bounds of the model.                                                    *)
(***************************************************************************)
MaxClock == 2        \* clock readings are 1..MaxClock
MaxGenerated == 1    \* at most this many generateId() calls per run
MaxSaves == 2        \* at most this many single-record writes per run
MaxTasks == 6        \* task counts for which the completion rate is checked
MaxWait == 2         \* maxWaitTime of waitForModules, in timer periods

(***************************************************************************)
(* Value encodings.                                                        *)
(***************************************************************************)
NoId == 0
NoTime == 0
GenBase == 10

Undefined == [t |-> "undefined"]
Arr(s) == [t |-> "array", v |-> s]
Obj(r) == [t |-> "object", v |-> r]
Key(k) == [t |-> "key", v |-> k]
TypeError == [t |-> "TypeError"]
ImportError == [t |-> "Error"]
True == [t |-> "true"]

IsArr(x) == x.t = "array"
IsObj(x) == x.t = "object"

\* localStorage.getItem returns null for a missing key
Null == [t |-> "null"]

StoreNames == {"notes", "tasks", "knowledge_graph", "settings"}

EmptyStore == <<>>
EmptyIDB == [notes |-> EmptyStore, tasks |-> EmptyStore,
             knowledge_graph |-> EmptyStore, settings |-> EmptyStore]
EmptyLS == [notes |-> Null, tasks |-> Null,
            knowledge_graph |-> Null, settings |-> Null]

DefaultNoteTitle == <<"N">>
DefaultTaskTitle == <<"T">>
EmptyGraph == [nodes |-> <<>>, links |-> <<>>]

(***************************************************************************)
(* Helpers on sequences and finite maps.                                   *)
(***************************************************************************)
RECURSIVE SeqFilter(_, _)
SeqFilter(s, keep) ==
    IF s = <<>> THEN <<>>
    ELSE IF Head(s) \in keep THEN <<Head(s)>> \o SeqFilter(Tail(s), keep)
         ELSE SeqFilter(Tail(s), keep)

MinOf(S) == CHOOSE x \in S : \A y \in S : x <= y

RECURSIVE SortedKeys(_)
SortedKeys(S) ==
    IF S = {} THEN <<>>
    ELSE <<MinOf(S)>> \o SortedKeys(S \ {MinOf(S)})

Range(s) == {s[i] : i \in DOMAIN s}
(***************************************************************************)
(* A storage manager with the stores it works on is the record             *)
(*   [db, useLocalStorage, indexedDB, localStorage, generated].            *)
(* Every facade method is an operator from such a record (and the clock    *)
(* reading t) to an outcome [sm, ok, val]: the stores afterwards, whether  *)
(* the returned promise resolved (ok) or rejected, and the value.          *)
(***************************************************************************)
Outcome(sm, ok, val) == [sm |-> sm, ok |-> ok, val |-> val]

\* keyPath of each object store (openDatabase), also the field the
\* fallback closures compare in find/filter
KeyOf(storeName, rec) == IF storeName = "settings" THEN rec.key ELSE rec.id

\* generateId(): Date.now() and Math.random() in base 36; modelled as a
\* source of ids that never repeats
generateId(sm) == GenBase + sm.generated + 1

\* JSON.parse(localStorage.getItem(storeName) || '[]')
JSONparse(item) == IF item.t = "null" THEN Arr(<<>>) ELSE item

\* JSON.stringify(result) of a defined result: arrays and plain objects of
\* strings, numbers and booleans keep their shape and their fields
JSONstringify(result) ==
    IF IsArr(result) THEN Arr(result.v)
    ELSE IF IsObj(result) THEN Obj(result.v)
    ELSE result

setItem(ls, storeName, text) == [ls EXCEPT ![storeName] = text]

\* ---- operations on one object store of the structured backend ----
StorePut(store, key, rec) ==
    [k \in (DOMAIN store) \cup {key} |-> IF k = key THEN rec ELSE store[k]]

StoreDelete(store, key) == [k \in (DOMAIN store) \ {key} |-> store[k]]

StoreGet(store, key) ==
    IF key \in DOMAIN store THEN Obj(store[key]) ELSE Undefined

StoreGetAll(store) ==
    LET ks == SortedKeys(DOMAIN store)
    IN  Arr([i \in 1..Len(ks) |-> store[ks[i]]])

\* request.result of the request the operation closure returns, and the
\* store contents after it
IDBRequest(store, operation) ==
    CASE operation.op = "put" ->
            [store |-> StorePut(store, operation.key, operation.rec),
             result |-> Key(operation.key)]
      [] operation.op \in {"get", "getGraph"} ->
            [store |-> store, result |-> StoreGet(store, operation.key)]
      [] operation.op = "getAll" ->
            [store |-> store, result |-> StoreGetAll(store)]
      [] operation.op = "delete" ->
            [store |-> StoreDelete(store, operation.key), result |-> Undefined]
      [] operation.op = "clear" ->
            [store |-> EmptyStore, result |-> Undefined]

\* ---- the fallback branch of each operation closure, on { data } ----
\* Array.prototype.find / filter on the parsed entry
DataFind(storeName, data, key) ==
    LET hits == {i \in DOMAIN data.v : KeyOf(storeName, data.v[i]) = key}
    IN  IF hits = {} THEN Undefined ELSE Obj(data.v[MinOf(hits)])

DataFilterOut(storeName, data, key) ==
    LET keep == {data.v[i] : i \in {j \in DOMAIN data.v :
                                      KeyOf(storeName, data.v[j]) # key}}
    IN  Arr(SeqFilter(data.v, keep))

\* `found || { nodes: [], links: [] }`
OrEmptyGraph(found) ==
    IF found.t = "undefined" THEN Obj(EmptyGraph) ELSE found

\* the closure's own localStorage.setItem(storeName, JSON.stringify(filtered))
FilteredAndStored(ls, storeName, filtered) ==
    [threw |-> FALSE, result |-> filtered,
     ls |-> setItem(ls, storeName, JSONstringify(filtered))]

\* outcome of operation({ data }): [threw, result, ls], where ls holds the
\* writes the closure itself makes to localStorage
LocalClosure(ls, storeName, data, operation) ==
    CASE operation.op = "put" ->
            \* store.put is not a function
            [threw |-> TRUE, result |-> TypeError, ls |-> ls]
      [] operation.op = "getAll" ->
            [threw |-> FALSE, result |-> data, ls |-> ls]
      [] operation.op = "get" ->
            IF IsArr(data)
            THEN [threw |-> FALSE, result |-> DataFind(storeName, data, operation.key),
                  ls |-> ls]
            ELSE [threw |-> TRUE, result |-> TypeError, ls |-> ls]
      [] operation.op = "getGraph" ->
            IF IsArr(data)
            THEN [threw |-> FALSE,
                  result |-> OrEmptyGraph(DataFind(storeName, data, operation.key)),
                  ls |-> ls]
            ELSE [threw |-> TRUE, result |-> TypeError, ls |-> ls]
      [] operation.op = "delete" ->
            IF IsArr(data)
            THEN FilteredAndStored(ls, storeName,
                                   DataFilterOut(storeName, data, operation.key))
            ELSE [threw |-> TRUE, result |-> TypeError, ls |-> ls]
      [] operation.op = "clear" ->
            [threw |-> FALSE, result |-> Arr(<<>>),
             ls |-> [ls EXCEPT ![storeName] = Null]]

\* (variant of LocalResult that stores the result without testing it)
LocalResultUntested(sm, storeName, c) ==
    IF c.threw
    THEN Outcome([sm EXCEPT !.localStorage = c.ls], FALSE, c.result)
    ELSE Outcome([sm EXCEPT !.localStorage =
                      setItem(c.ls, storeName, JSONstringify(c.result))],
                 TRUE, c.result)

\* the rest of performLocalStorageOperation once the closure `c` has run:
\* `if (result !== undefined) localStorage.setItem(...)`, then resolve; a
\* throw is caught and the promise rejected
LocalResult(sm, storeName, c) ==
    IF c.threw
    THEN Outcome([sm EXCEPT !.localStorage = c.ls], FALSE, c.result)
    ELSE IF c.result.t # "undefined"
    THEN Outcome([sm EXCEPT !.localStorage =
                      setItem(c.ls, storeName, JSONstringify(c.result))],
                 TRUE, c.result)
    ELSE Outcome([sm EXCEPT !.localStorage = c.ls], TRUE, c.result)

performLocalStorageOperation(sm, storeName, operation) ==
    LocalResult(sm, storeName,
                LocalClosure(sm.localStorage, storeName,
                             JSONparse(sm.localStorage[storeName]), operation))

\* (variant of Route that prefers an open database handle)
RouteDbFirst(sm) ==
    IF sm.db # "null" THEN "idb"
    ELSE IF sm.useLocalStorage THEN "ls"
    ELSE "none"

\* which backend performTransaction hands the operation to
Route(sm) ==
    IF sm.useLocalStorage THEN "ls"
    ELSE IF sm.db = "null" THEN "none"
    ELSE "idb"

\* request.onsuccess: the promise resolves with request.result
Resolved(sm, storeName, r) ==
    Outcome([sm EXCEPT !.indexedDB[storeName] = r.store], TRUE, r.result)

performTransactionVia(route, sm, storeName, operation) ==
    CASE route = "ls" -> performLocalStorageOperation(sm, storeName, operation)
      [] route = "none" ->
            \* this.db is null: this.db.transaction throws in the executor
            Outcome(sm, FALSE, TypeError)
      [] route = "idb" ->
            Resolved(sm, storeName, IDBRequest(sm.indexedDB[storeName], operation))

performTransaction(sm, storeName, operation) ==
    performTransactionVia(Route(sm), sm, storeName, operation)

(***************************************************************************)
(* The facade methods of StorageManager.                                   *)
(***************************************************************************)
Put(key, rec) == [op |-> "put", key |-> key, rec |-> rec]
Get(key) == [op |-> "get", key |-> key]
GetGraph == [op |-> "getGraph", key |-> "main_graph"]
GetAll == [op |-> "getAll"]
Delete(key) == [op |-> "delete", key |-> key]
Clear == [op |-> "clear"]

\* the id a save uses, and the manager after generateId() when it ran
SaveId(sm, givenId) == IF givenId # NoId THEN givenId ELSE generateId(sm)
AfterId(sm, givenId) ==
    IF givenId # NoId THEN sm ELSE [sm EXCEPT !.generated = @ + 1]

\* (variant of noteData whose updatedAt is `note.createdAt || now`)
noteDataStale(sm, note, t) ==
    [id |-> SaveId(sm, note.id),
     title |-> IF note.title # <<>> THEN note.title ELSE DefaultNoteTitle,
     content |-> note.content,
     tags |-> note.tags,
     createdAt |-> IF note.createdAt # NoTime THEN note.createdAt ELSE t,
     updatedAt |-> IF note.createdAt # NoTime THEN note.createdAt ELSE t,
     wordCount |-> Len(note.content)]

noteData(sm, note, t) ==
    [id |-> SaveId(sm, note.id),
     title |-> IF note.title # <<>> THEN note.title ELSE DefaultNoteTitle,
     content |-> note.content,
     tags |-> note.tags,
     createdAt |-> IF note.createdAt # NoTime THEN note.createdAt ELSE t,
     updatedAt |-> t,
     wordCount |-> Len(note.content)]

\* `await this.performTransaction(...); return data`
Saved(r, data) == IF r.ok THEN Outcome(r.sm, TRUE, Obj(data)) ELSE r

\* `await this.performTransaction(...)` of a method that returns nothing
Done(r) == IF r.ok THEN Outcome(r.sm, TRUE, Undefined) ELSE r

PutData(sm, storeName, data) ==
    Saved(performTransaction(sm, storeName, Put(KeyOf(storeName, data), data)), data)

saveNote(sm, note, t) ==
    PutData(AfterId(sm, note.id), "notes", noteData(sm, note, t))

getNotes(sm) == performTransaction(sm, "notes", GetAll)

getNote(sm, id) == performTransaction(sm, "notes", Get(id))

\* (variant of deleteNote that empties the object store)
deleteNoteClears(sm, id) == Done(performTransaction(sm, "notes", Clear))

\* (variant of deleteNote whose closure reads the note instead of deleting it)
deleteNoteReads(sm, id) == Done(performTransaction(sm, "notes", Get(id)))

\* (variant of deleteNote that also empties the tasks store)
deleteNoteCascades(sm, id) ==
    Done(performTransaction(performTransaction(sm, "tasks", Clear).sm,
                            "notes", Delete(id)))

deleteNote(sm, id) == Done(performTransaction(sm, "notes", Delete(id)))

taskData(sm, task, t) ==
    [id |-> SaveId(sm, task.id),
     title |-> IF task.title # <<>> THEN task.title ELSE DefaultTaskTitle,
     description |-> task.description,
     priority |-> IF task.priority # "" THEN task.priority ELSE "medium",
     completed |-> task.completed,
     dueDate |-> task.dueDate,
     createdAt |-> IF task.createdAt # NoTime THEN task.createdAt ELSE t,
     updatedAt |-> t,
     relatedNoteId |-> task.relatedNoteId]

saveTask(sm, task, t) ==
    PutData(AfterId(sm, task.id), "tasks", taskData(sm, task, t))

getTasks(sm) == performTransaction(sm, "tasks", GetAll)

getTask(sm, id) == performTransaction(sm, "tasks", Get(id))

\* (variant of deleteTask that empties the object store)
deleteTaskClears(sm, id) == Done(performTransaction(sm, "tasks", Clear))

deleteTask(sm, id) == Done(performTransaction(sm, "tasks", Delete(id)))

\* `if (task)`: the value read is an object
Truthy(val) == val.t \in {"object", "array", "true", "key"}

\* `task.completed = completed; task.updatedAt = new Date().toISOString()`
withStatus(task, completed, t) ==
    [task EXCEPT !.completed = completed, !.updatedAt = t]

\* `await this.saveTask(task); return task`
Updated(s, task) == IF s.ok THEN Outcome(s.sm, TRUE, Obj(task)) ELSE s

\* (variant of updateRead without the `if (task)` test)
updateReadUnchecked(g, completed, t) ==
    IF ~g.ok THEN g
    ELSE IF Truthy(g.val)
    THEN Updated(saveTask(g.sm, withStatus(g.val.v, completed, t), t),
                 withStatus(g.val.v, completed, t))
    ELSE Outcome(g.sm, FALSE, TypeError)

\* the rest of updateTaskStatus once getTask has settled with `g`
updateRead(g, completed, t) ==
    IF ~g.ok THEN g
    ELSE IF Truthy(g.val)
    THEN Updated(saveTask(g.sm, withStatus(g.val.v, completed, t), t),
                 withStatus(g.val.v, completed, t))
    ELSE Outcome(g.sm, TRUE, g.val)

updateTaskStatus(sm, id, completed, t) ==
    updateRead(getTask(sm, id), completed, t)

graphData(graph, t) ==
    [id |-> "main_graph", nodes |-> graph.nodes, links |-> graph.links,
     updatedAt |-> t]

saveKnowledgeGraph(sm, graph, t) ==
    PutData(sm, "knowledge_graph", graphData(graph, t))

getKnowledgeGraph(sm) == performTransaction(sm, "knowledge_graph", GetGraph)

settingData(key, value, t) == [key |-> key, value |-> value, updatedAt |-> t]

saveSetting(sm, key, value, t) ==
    PutData(sm, "settings", settingData(key, value, t))

\* (variant of valueOrDefault written `setting.value || defaultValue`)
valueOrDefaultFalsy(r, defaultValue) ==
    IF ~r.ok THEN r
    ELSE IF Truthy(r.val) /\ r.val.v.value.v # 0
    THEN Outcome(r.sm, TRUE, r.val.v.value)
    ELSE Outcome(r.sm, TRUE, defaultValue)

\* a setting value: [t |-> "value", v |-> n]; `setting ? setting.value : d`
valueOrDefault(r, defaultValue) ==
    IF ~r.ok THEN r
    ELSE IF Truthy(r.val) THEN Outcome(r.sm, TRUE, r.val.v.value)
    ELSE Outcome(r.sm, TRUE, defaultValue)

getSetting(sm, key, defaultValue) ==
    valueOrDefault(performTransaction(sm, "settings", Get(key)), defaultValue)

getAllSettings(sm) == performTransaction(sm, "settings", GetAll)
\* Promise.all over reads that were all started: every read runs; the
\* result is rejected with the first rejection
exportDoc(n, k, g, a, t) ==
    IF ~n.ok THEN Outcome(a.sm, FALSE, n.val)
    ELSE IF ~k.ok THEN Outcome(a.sm, FALSE, k.val)
    ELSE IF ~g.ok THEN Outcome(a.sm, FALSE, g.val)
    ELSE IF ~a.ok THEN Outcome(a.sm, FALSE, a.val)
    ELSE Outcome(a.sm, TRUE,
                 [t |-> "doc", version |-> "1.0", exportDate |-> t,
                  data |-> Obj([notes |-> n.val, tasks |-> k.val,
                                knowledgeGraph |-> g.val, settings |-> a.val])])

exportSettings(n, k, g, t) == exportDoc(n, k, g, getAllSettings(g.sm), t)
exportGraph(n, k, t) == exportSettings(n, k, getKnowledgeGraph(k.sm), t)
exportTasks(n, t) == exportGraph(n, getTasks(n.sm), t)
exportData(sm, t) == exportTasks(getNotes(sm), t)

\* `for (const x of xs) await this.saveX(x)`: stops at the first rejection
\* a null element: reading `note.id` of null throws in the save
IsNull(rec) == "t" \in DOMAIN rec

saveOne(sm, storeName, rec, t) ==
    CASE IsNull(rec) -> Outcome(sm, FALSE, TypeError)
      [] storeName = "notes" -> saveNote(sm, rec, t)
      [] storeName = "tasks" -> saveTask(sm, rec, t)
      [] storeName = "settings" -> saveSetting(sm, rec.key, rec.value, t)

\* the rest of the loop once the save of one element has settled with `r`
RECURSIVE saveEach(_, _, _, _)
saveRest(r, storeName, recs, t) ==
    IF r.ok THEN saveEach(r.sm, storeName, recs, t) ELSE r

saveEach(sm, storeName, recs, t) ==
    IF recs = <<>> THEN Outcome(sm, TRUE, Undefined)
    ELSE saveRest(saveOne(sm, storeName, Head(recs), t), storeName, Tail(recs), t)

\* `if (xs && Array.isArray(xs))`
saveArray(sm, storeName, xs, t) ==
    IF IsArr(xs) THEN saveEach(sm, storeName, xs.v, t)
    ELSE Outcome(sm, TRUE, Undefined)

\* the four stages of importData; a stage runs when the one before resolved
importNotes(sm, d, t) == saveArray(sm, "notes", d.notes, t)

\* (variant of importTasks that skips the tasks)
importTasksSkipped(r, d, t) == r

\* (variant of importTasks that runs whatever became of the notes)
importTasksAlways(r, d, t) == saveArray(r.sm, "tasks", d.tasks, t)

importTasks(r, d, t) ==
    IF r.ok THEN saveArray(r.sm, "tasks", d.tasks, t) ELSE r

importGraph(r, d, t) ==
    IF r.ok /\ Truthy(d.knowledgeGraph)
    THEN saveKnowledgeGraph(r.sm, d.knowledgeGraph.v, t)
    ELSE r

importSettings(r, d, t) ==
    IF r.ok THEN saveArray(r.sm, "settings", d.settings, t) ELSE r

\* `return true`
Imported(r) == IF r.ok THEN Outcome(r.sm, TRUE, True) ELSE r

\* (variant of importData that accepts a document without `data`)
importDataLenient(sm, doc, t) ==
    IF doc.data.t = "undefined" THEN Outcome(sm, TRUE, True)
    ELSE Imported(importSettings(importGraph(importTasks(
             importNotes(sm, doc.data.v, t), doc.data.v, t), doc.data.v, t),
             doc.data.v, t))

importData(sm, doc, t) ==
    IF doc.data.t = "undefined" THEN Outcome(sm, FALSE, ImportError)
    ELSE Imported(importSettings(importGraph(importTasks(
             importNotes(sm, doc.data.v, t), doc.data.v, t), doc.data.v, t),
             doc.data.v, t))

ClearOrder == <<"notes", "tasks", "knowledge_graph", "settings">>

RECURSIVE clearEach(_, _)
clearRest(r, names) == IF r.ok THEN clearEach(r.sm, names) ELSE r

clearEach(sm, names) ==
    IF names = <<>> THEN Outcome(sm, TRUE, Undefined)
    ELSE clearRest(performTransaction(sm, Head(names), Clear), Tail(names))

clearAllData(sm) == clearEach(sm, ClearOrder)
\* String.prototype.toLowerCase on the characters the model uses
toLowerCase(str) ==
    [i \in DOMAIN str |-> CASE str[i] = "A" -> "a"
                            [] str[i] = "B" -> "b"
                            [] str[i] = "C" -> "c"
                            [] str[i] = "N" -> "n"
                            [] str[i] = "T" -> "t"
                            [] str[i] = "X" -> "x"
                            [] OTHER -> str[i]]

\* String.prototype.includes
includes(str, sub) ==
    \E i \in 0..(Len(str) - Len(sub)) :
        \A j \in 1..Len(sub) : str[i + j] = sub[j]

\* (variant of noteMatches that does not look at the tags)
noteMatchesNoTags(note, searchTerm) ==
    \/ includes(toLowerCase(note.title), searchTerm)
    \/ includes(toLowerCase(note.content), searchTerm)

noteMatches(note, searchTerm) ==
    \/ includes(toLowerCase(note.title), searchTerm)
    \/ includes(toLowerCase(note.content), searchTerm)
    \/ \E i \in DOMAIN note.tags : includes(toLowerCase(note.tags[i]), searchTerm)

filterNotes(r, searchTerm) ==
    IF ~r.ok THEN r
    ELSE IF ~IsArr(r.val) THEN Outcome(r.sm, FALSE, TypeError)
    ELSE Outcome(r.sm, TRUE,
                 Arr(SeqFilter(r.val.v,
                               {n \in Range(r.val.v) : noteMatches(n, searchTerm)})))

searchNotes(sm, query) == filterNotes(getNotes(sm), toLowerCase(query))

RECURSIVE SumWords(_)
SumWords(notes) ==
    IF notes = <<>> THEN 0 ELSE Head(notes).wordCount + SumWords(Tail(notes))

\* Math.round(completed / total * 100), halves rounded up
completionRate(completedTasks, totalTasks) ==
    IF totalTasks > 0
    THEN (200 * completedTasks + totalTasks) \div (2 * totalTasks)
    ELSE 0

\* (variant of completedOf that counts every task)
completedOfAll(tasks) == Len(tasks)

completedOf(tasks) == Len(SeqFilter(tasks, {x \in Range(tasks) : x.completed}))

stats(n, k) ==
    IF ~n.ok THEN Outcome(k.sm, FALSE, n.val)
    ELSE IF ~k.ok THEN Outcome(k.sm, FALSE, k.val)
    ELSE IF ~(IsArr(n.val) /\ IsArr(k.val)) THEN Outcome(k.sm, FALSE, TypeError)
    ELSE Outcome(k.sm, TRUE,
                 [t |-> "stats",
                  totalNotes |-> Len(n.val.v),
                  totalTasks |-> Len(k.val.v),
                  completedTasks |-> completedOf(k.val.v),
                  totalWords |-> SumWords(n.val.v),
                  completionRate |-> completionRate(completedOf(k.val.v),
                                                    Len(k.val.v))])

statsTasks(n) == stats(n, getTasks(n.sm))
getStorageStats(sm) == statsTasks(getNotes(sm))

(***************************************************************************)
(* Inputs of the facade calls.                                             *)
(***************************************************************************)
CallerIds == {1}
GeneratedIds == {GenBase + i : i \in 1..generated}
KnownIds == CallerIds \cup GeneratedIds

EmptyText == [title |-> <<>>, content |-> <<>>, tags |-> <<>>]
FullText == [title |-> <<"A">>, content |-> <<"c", "a", "t">>, tags |-> << <<"x">> >>]

NoteInput(i, x, c) ==
    [id |-> i, title |-> x.title, content |-> x.content, tags |-> x.tags,
     createdAt |-> c]

\* a new empty note, and a note with text, new or edited, whose createdAt
\* is absent or supplied by the caller (an edited or imported note)
NoteInputs ==
    {NoteInput(NoId, EmptyText, NoTime)}
    \cup {NoteInput(i, FullText, c) : i \in {NoId} \cup KnownIds,
                                     c \in {NoTime, MaxClock}}

TaskInput(i, x) ==
    [id |-> i, title |-> x[1], description |-> x[2], priority |-> x[3],
     completed |-> FALSE, dueDate |-> NoTime, createdAt |-> NoTime,
     relatedNoteId |-> x[4]]
BareTask == << <<>>, <<>>, "", NoId >>
FullTask == << <<"B">>, <<"d">>, "high", 1 >>
TaskInputs ==
    {TaskInput(NoId, BareTask), TaskInput(NoId, FullTask)}
    \cup {TaskInput(i, FullTask) : i \in KnownIds}

GraphInputs == { [nodes |-> << [id |-> 1] >>, links |-> <<>>] }
SettingKeys == {1}
Value(n) == [t |-> "value", v |-> n]
SettingValues == {Value(0), Value(7)}
\* queries met by a content ("Ca" in "cat"), by a tag only ("X" in "x"), and
\* by the default title only ("n" in "N")
Queries == { <<"C", "a">>, <<"X">>, <<"n">> }

\* a document without the `data` field
MalformedDoc == [t |-> "doc", version |-> "1.0", exportDate |-> NoTime,
                 data |-> Undefined]
NoDoc == [t |-> "none"]

\* a hand-made document whose second note is null: the save of that element
\* throws after the first note has been saved
PartialDoc ==
    [t |-> "doc", version |-> "1.0", exportDate |-> NoTime,
     data |-> Obj([notes |-> Arr(<<NoteInput(1, FullText, NoTime), Null>>),
                   tasks |-> Arr(<<TaskInput(1, FullTask)>>),
                   knowledgeGraph |-> Obj([nodes |-> <<>>, links |-> <<>>]),
                   settings |-> Arr(<<[key |-> 1, value |-> Value(7)]>>)])]

ImportDocs ==
    {MalformedDoc, PartialDoc} \cup (IF exported.t = "doc" THEN {exported} ELSE {})
(***************************************************************************)
(* State machine.                                                          *)
(***************************************************************************)
\* window.storageManager with its stores
This == [db |-> db, useLocalStorage |-> useLocalStorage, indexedDB |-> indexedDB,
         localStorage |-> localStorage, generated |-> generated]

FallbackManager == [db |-> "null", useLocalStorage |-> TRUE, indexedDB |-> EmptyIDB,
                    localStorage |-> EmptyLS, generated |-> 0]

Op(name, id, flag) == [name |-> name, id |-> id, flag |-> flag]
NoOp == Op("none", NoId, FALSE)
Res(out) == [ok |-> out.ok, val |-> out.val]
NoRes == [ok |-> TRUE, val |-> Undefined]

\* the globals waitForModules waits for besides window.storageManager
OtherModules == {"aiEngine", "noteEditor", "taskManager"}

\* no facade call is followed through its transactions
NoPromise == [name |-> "none", state |-> "none", rest |-> <<>>]
NotUpdating == [pc |-> "idle", id |-> NoId, completed |-> FALSE,
                task |-> Undefined, deleted |-> FALSE]

BackendSelected == db # "null" \/ useLocalStorage

\* the editor before a note is opened and before its list is loaded
NoEditor ==
    /\ currentNote = Null
    /\ titleEl = <<>>
    /\ editorEl = <<>>
    /\ noteList = <<>>
    /\ unsavedMark = FALSE
    /\ writes = <<>>
    /\ serial = 0
    /\ savedIds = {}

Init ==
    /\ db = "null"
    /\ useLocalStorage = FALSE
    /\ indexedDB = EmptyIDB
    /\ localStorage = EmptyLS
    /\ openRequest = "pending"
    /\ openAttempts = 1
    /\ now = 1
    /\ generated = 0
    /\ lastOp = NoOp
    /\ lastRes = NoRes
    /\ lastRoute = "none"
    /\ roundTrip = 0
    /\ exported = NoDoc
    /\ saves = 0
    /\ twin = FallbackManager
    /\ twinRes = NoRes
    /\ transactions = <<>>
    /\ promise = NoPromise
    /\ updating = NotUpdating
    /\ modules = OtherModules
    /\ isInitialized = FALSE
    /\ waitPc = "storage"
    /\ elapsed = 0
    /\ NoEditor

startupVars == <<openRequest, openAttempts>>
callVars == <<lastOp, lastRes, lastRoute, roundTrip, exported, saves>>
storeVars == <<indexedDB, localStorage, generated>>
twinVars == <<twin, twinRes>>
startVars == <<modules, isInitialized, waitPc, elapsed>>
editorVars == <<currentNote, titleEl, editorEl, noteList, unsavedMark,
                writes, serial, savedIds>>
appVars == <<transactions, promise, updating, startVars, editorVars>>

\* ---- startup: StorageManager.init and SmartNotesApp.waitForModules ----
\* request.onsuccess: openDatabase resolves and init stores the handle
OpenSuccess ==
    /\ openRequest = "pending"
    /\ openRequest' = "success"
    /\ db' = "handle"
    /\ UNCHANGED <<useLocalStorage, openAttempts, now>>
    /\ UNCHANGED <<storeVars, callVars, twinVars, appVars>>

\* request.onerror: openDatabase rejects and init degrades to localStorage
OpenError ==
    /\ openRequest = "pending"
    /\ openRequest' = "error"
    /\ useLocalStorage' = TRUE
    /\ UNCHANGED <<db, openAttempts, now>>
    /\ UNCHANGED <<storeVars, callVars, twinVars, appVars>>

\* waitForModules polls while neither db nor useLocalStorage is set (the loop
\* ends, without effect, once one is); this is the evaluation that finds
\* Date.now() - startTime > maxWaitTime and degrades to localStorage
WaitForStorageTimeout ==
    /\ ~(db # "null" \/ useLocalStorage)
    /\ useLocalStorage' = TRUE
    /\ UNCHANGED <<db, openRequest, openAttempts, now>>
    /\ UNCHANGED <<storeVars, callVars, twinVars, appVars>>

\* the clock advances
Tick ==
    /\ now < MaxClock
    /\ now' = now + 1
    /\ UNCHANGED <<db, useLocalStorage, startupVars>>
    /\ UNCHANGED <<storeVars, callVars, twinVars, appVars>>

\* ---- facade calls ----
SingleWrites == {"saveNote", "deleteNote", "saveTask", "deleteTask",
                 "updateTaskStatus", "saveKnowledgeGraph", "saveSetting"}

\* the calls counted in `saves`: the single-record writes and the import of
\* a hand-made document (one with data that no exportData produced)
Budgeted(op) ==
    \/ op.name \in SingleWrites
    \/ op.name = "importData" /\ op.flag /\ op.id = NoTime

\* progress of an export, clear, import sequence after the call `op`
RoundTripAfter(op, out) ==
    CASE op.name = "exportData" /\ out.ok -> 1
      [] op.name = "clearAllData" /\ roundTrip = 1 -> 2
      [] op.name = "importData" /\ roundTrip = 2 /\ op.flag /\ op.id # NoTime -> 3
      [] OTHER -> 0

\* a call `op` on window.storageManager with outcome `out`; `tw` is the
\* outcome of the same call on the twin when the twin is run in step (eq)
Call(op, out, eq, tw) ==
    /\ Budgeted(op) => saves < MaxSaves
    /\ saves' = IF Budgeted(op) THEN saves + 1 ELSE saves
    /\ indexedDB' = out.sm.indexedDB
    /\ localStorage' = out.sm.localStorage
    /\ generated' = out.sm.generated
    /\ lastOp' = op
    /\ lastRes' = Res(out)
    /\ lastRoute' = Route(This)
    /\ roundTrip' = RoundTripAfter(op, out)
    /\ exported' = CASE RoundTripAfter(op, out) = 0 -> NoDoc
                     [] RoundTripAfter(op, out) = 1 -> out.val
                     [] OTHER -> exported
    /\ IF eq THEN twin' = tw.sm /\ twinRes' = Res(tw)
             ELSE UNCHANGED twinVars
    /\ UNCHANGED <<db, useLocalStorage, startupVars, now, appVars>>

CanGenerate(id) == id # NoId \/ generated < MaxGenerated

SaveNoteStep(eq) ==
    \E note \in NoteInputs :
        /\ CanGenerate(note.id)
        /\ Call(Op("saveNote", note.id, FALSE), saveNote(This, note, now),
                eq, saveNote(twin, note, now))

GetNotesStep(eq) ==
    Call(Op("getNotes", NoId, FALSE), getNotes(This), eq, getNotes(twin))

GetNoteStep(eq) ==
    \E id \in KnownIds :
        Call(Op("getNote", id, FALSE), getNote(This, id), eq, getNote(twin, id))

DeleteNoteStep(eq) ==
    \E id \in KnownIds :
        Call(Op("deleteNote", id, FALSE), deleteNote(This, id), eq,
             deleteNote(twin, id))

SearchNotesStep(eq) ==
    \E q \in Queries :
        Call(Op("searchNotes", NoId, FALSE), searchNotes(This, q), eq,
             searchNotes(twin, q))

SaveTaskStep(eq) ==
    \E task \in TaskInputs :
        /\ CanGenerate(task.id)
        /\ Call(Op("saveTask", task.id, FALSE), saveTask(This, task, now),
                eq, saveTask(twin, task, now))

GetTasksStep(eq) ==
    Call(Op("getTasks", NoId, FALSE), getTasks(This), eq, getTasks(twin))

GetTaskStep(eq) ==
    \E id \in KnownIds :
        Call(Op("getTask", id, FALSE), getTask(This, id), eq, getTask(twin, id))

DeleteTaskStep(eq) ==
    \E id \in KnownIds :
        Call(Op("deleteTask", id, FALSE), deleteTask(This, id), eq,
             deleteTask(twin, id))

UpdateTaskStatusStep(eq) ==
    \E id \in KnownIds, completed \in BOOLEAN :
        Call(Op("updateTaskStatus", id, completed),
             updateTaskStatus(This, id, completed, now), eq,
             updateTaskStatus(twin, id, completed, now))

SaveKnowledgeGraphStep(eq) ==
    \E g \in GraphInputs :
        Call(Op("saveKnowledgeGraph", NoId, FALSE), saveKnowledgeGraph(This, g, now),
             eq, saveKnowledgeGraph(twin, g, now))

GetKnowledgeGraphStep(eq) ==
    Call(Op("getKnowledgeGraph", NoId, FALSE), getKnowledgeGraph(This), eq,
         getKnowledgeGraph(twin))

SaveSettingStep(eq) ==
    \E k \in SettingKeys, v \in SettingValues :
        Call(Op("saveSetting", k, FALSE), saveSetting(This, k, v, now), eq,
             saveSetting(twin, k, v, now))

GetSettingStep(eq) ==
    \E k \in SettingKeys :
        Call(Op("getSetting", k, FALSE), getSetting(This, k, Null), eq,
             getSetting(twin, k, Null))

GetStorageStatsStep(eq) ==
    Call(Op("getStorageStats", NoId, FALSE), getStorageStats(This), eq,
         getStorageStats(twin))

ExportDataStep(eq) ==
    Call(Op("exportData", NoId, FALSE), exportData(This, now), eq,
         exportData(twin, now))

\* id: the exportDate of the document; flag: the document has `data`
ImportDataStep(eq) ==
    \E doc \in ImportDocs :
        Call(Op("importData", doc.exportDate, doc.data.t # "undefined"),
             importData(This, doc, now), eq, importData(twin, doc, now))

ClearAllDataStep(eq) ==
    Call(Op("clearAllData", NoId, FALSE), clearAllData(This), eq,
         clearAllData(twin))


Next ==
    \/ OpenSuccess
    \/ OpenError
    \/ WaitForStorageTimeout
    \/ Tick
    \/ SaveNoteStep(FALSE)
    \/ GetNotesStep(FALSE)
    \/ GetNoteStep(FALSE)
    \/ DeleteNoteStep(FALSE)
    \/ SearchNotesStep(FALSE)
    \/ SaveTaskStep(FALSE)
    \/ GetTasksStep(FALSE)
    \/ GetTaskStep(FALSE)
    \/ DeleteTaskStep(FALSE)
    \/ UpdateTaskStatusStep(FALSE)
    \/ SaveKnowledgeGraphStep(FALSE)
    \/ GetKnowledgeGraphStep(FALSE)
    \/ SaveSettingStep(FALSE)
    \/ GetSettingStep(FALSE)
    \/ GetStorageStatsStep(FALSE)
    \/ ExportDataStep(FALSE)
    \/ ImportDataStep(FALSE)
    \/ ClearAllDataStep(FALSE)

Spec == Init /\ [][Next]_vars
(***************************************************************************)
(* The twin specification: window.storageManager on the structured store   *)
(* and a second manager on the fallback store, both from empty storage,    *)
(* receive the same calls with the same arguments at the same clock.       *)
(***************************************************************************)
InitEq ==
    /\ db = "handle"
    /\ useLocalStorage = FALSE
    /\ indexedDB = EmptyIDB
    /\ localStorage = EmptyLS
    /\ openRequest = "success"
    /\ openAttempts = 1
    /\ now = 1
    /\ generated = 0
    /\ lastOp = NoOp
    /\ lastRes = NoRes
    /\ lastRoute = "none"
    /\ roundTrip = 0
    /\ exported = NoDoc
    /\ saves = 0
    /\ twin = FallbackManager
    /\ twinRes = NoRes
    /\ transactions = <<>>
    /\ promise = NoPromise
    /\ updating = NotUpdating
    /\ modules = OtherModules
    /\ isInitialized = FALSE
    /\ waitPc = "storage"
    /\ elapsed = 0
    /\ NoEditor


NextEq ==
    \/ Tick
    \/ SaveNoteStep(TRUE)
    \/ GetNotesStep(TRUE)
    \/ GetNoteStep(TRUE)
    \/ DeleteNoteStep(TRUE)
    \/ SaveTaskStep(TRUE)
    \/ GetTaskStep(TRUE)
    \/ DeleteTaskStep(TRUE)
    \/ UpdateTaskStatusStep(TRUE)
    \/ SaveKnowledgeGraphStep(TRUE)
    \/ GetKnowledgeGraphStep(TRUE)
    \/ SaveSettingStep(TRUE)
    \/ GetSettingStep(TRUE)
    \/ ClearAllDataStep(TRUE)

SpecEq == InitEq /\ [][NextEq]_vars

(***************************************************************************)
(* The startup specification: StorageManager.init has called openDatabase  *)
(* and SmartNotesApp.init runs waitForModules, whose three polling loops   *)
(* share one start time.  The other modules assign their window globals    *)
(* when their scripts run, the open request calls back or never does, and  *)
(* each poll that finds nothing sleeps one timer period.                   *)
(***************************************************************************)
InitStartup ==
    /\ db = "null"
    /\ useLocalStorage = FALSE
    /\ indexedDB = EmptyIDB
    /\ localStorage = EmptyLS
    /\ openRequest = "pending"
    /\ openAttempts = 1
    /\ now = 1
    /\ generated = 0
    /\ lastOp = NoOp
    /\ lastRes = NoRes
    /\ lastRoute = "none"
    /\ roundTrip = 0
    /\ exported = NoDoc
    /\ saves = 0
    /\ twin = FallbackManager
    /\ twinRes = NoRes
    /\ transactions = <<>>
    /\ promise = NoPromise
    /\ updating = NotUpdating
    /\ modules = {}
    /\ isInitialized = FALSE
    /\ waitPc = "modules"
    /\ elapsed = 0
    /\ NoEditor

otherVars == <<now, storeVars, callVars, twinVars, transactions, promise,
               updating, editorVars>>

\* `window.noteEditor = new NoteEditor()` and the like: a module's script
\* (or its DOMContentLoaded handler) has run
ModuleLoaded ==
    \E m \in OtherModules \ modules :
        /\ modules' = modules \cup {m}
        /\ UNCHANGED <<db, useLocalStorage, startupVars, isInitialized, waitPc,
                       elapsed, otherVars>>

\* AIEngine.init: loadModels has resolved, `this.isInitialized = true`
AIEngineInit ==
    /\ "aiEngine" \in modules
    /\ ~isInitialized
    /\ isInitialized' = TRUE
    /\ UNCHANGED <<db, useLocalStorage, startupVars, modules, waitPc, elapsed,
                   otherVars>>

\* one evaluation of `Date.now() - startTime > maxWaitTime`
TimedOut == elapsed > MaxWait

\* `await new Promise(resolve => setTimeout(resolve, 100))`
Sleep == elapsed' = elapsed + 1

\* first loop: wait for the four globals, throw on timeout
WaitForModules ==
    /\ waitPc = "modules"
    /\ IF modules = OtherModules THEN waitPc' = "storage" /\ UNCHANGED elapsed
       ELSE IF TimedOut THEN waitPc' = "thrown" /\ UNCHANGED elapsed
       ELSE Sleep /\ UNCHANGED waitPc
    /\ UNCHANGED <<db, useLocalStorage, startupVars, modules, isInitialized,
                   otherVars>>

\* second loop: wait for db or useLocalStorage, degrade on timeout
WaitForStorage ==
    /\ waitPc = "storage"
    /\ IF db # "null" \/ useLocalStorage
       THEN waitPc' = "ai" /\ UNCHANGED <<useLocalStorage, elapsed>>
       ELSE IF TimedOut
       THEN useLocalStorage' = TRUE /\ waitPc' = "ai" /\ UNCHANGED elapsed
       ELSE Sleep /\ UNCHANGED <<useLocalStorage, waitPc>>
    /\ UNCHANGED <<db, startupVars, modules, isInitialized, otherVars>>

\* third loop: wait for the AI engine, give up on timeout
WaitForAI ==
    /\ waitPc = "ai"
    /\ IF isInitialized \/ TimedOut
       THEN waitPc' = "returned" /\ UNCHANGED elapsed
       ELSE Sleep /\ UNCHANGED waitPc
    /\ UNCHANGED <<db, useLocalStorage, startupVars, modules, isInitialized,
                   otherVars>>

NextStartup ==
    \/ OpenSuccess
    \/ OpenError
    \/ ModuleLoaded
    \/ AIEngineInit
    \/ WaitForModules
    \/ WaitForStorage
    \/ WaitForAI

\* timers fire: a loop of waitForModules that can take a turn takes it
SpecStartup ==
    /\ InitStartup
    /\ [][NextStartup]_vars
    /\ WF_vars(WaitForModules)
    /\ WF_vars(WaitForStorage)
    /\ WF_vars(WaitForAI)

(***************************************************************************)
(* The transaction specification: the structured backend is open and each  *)
(* facade write is followed through the events of its IndexedDB            *)
(* transactions (performTransaction): the request succeeds or fails, the   *)
(* transaction completes or aborts.  A new call begins once the promise of *)
(* the previous one has settled and its transactions have finished;        *)
(* updateTaskStatus is followed through its two awaits, so that other      *)
(* calls run between its read and its write.                               *)
(***************************************************************************)
\* `this.db.transaction([storeName], mode)` and the request the operation
\* closure returns; `settled` is the promise of this performTransaction
Tx(storeName, operation) ==
    [storeName |-> storeName, operation |-> operation, request |-> "pending",
     state |-> "active", settled |-> "pending"]

\* the previous call has settled and none of its transactions is active
Idle ==
    /\ promise.state # "pending"
    /\ \A i \in DOMAIN transactions : transactions[i].state # "active"

\* a facade write `name` reaches performTransaction on the structured
\* backend; `sm` is the manager after generateId(), `rest` the stores the
\* call still has to work on
BeginWrite(name, sm, storeName, operation, rest) ==
    /\ Route(This) = "idb"
    /\ Idle
    /\ transactions' = <<Tx(storeName, operation)>>
    /\ promise' = [name |-> name, state |-> "pending", rest |-> rest]
    /\ generated' = sm.generated
    /\ UNCHANGED <<db, useLocalStorage, indexedDB, localStorage, startupVars,
                   now, lastOp, lastRes, lastRoute, roundTrip, exported,
                   twinVars, startVars, editorVars>>

\* a write made by a caller of the facade, counted in `saves`
CallerWrite(name, sm, storeName, operation, rest) ==
    /\ saves < MaxSaves
    /\ saves' = saves + 1
    /\ BeginWrite(name, sm, storeName, operation, rest)
    /\ UNCHANGED updating

PutOf(storeName, data) == Put(KeyOf(storeName, data), data)

\* request.onsuccess = () => resolve(request.result): the promise of the
\* last performTransaction resolves, and with it the promise of a facade
\* call that has nothing left to do
RequestSuccess ==
    /\ transactions # <<>>
    /\ transactions[Len(transactions)].request = "pending"
    /\ transactions' = [transactions EXCEPT
                            ![Len(transactions)].request = "success",
                            ![Len(transactions)].settled = "resolved"]
    /\ promise' = IF promise.rest = <<>>
                  THEN [promise EXCEPT !.state = "resolved"]
                  ELSE promise
    /\ UNCHANGED <<db, useLocalStorage, startupVars, now, storeVars, callVars,
                   twinVars, updating, startVars, editorVars>>

\* request.onerror = () => reject(request.error); the error event bubbles
\* to transaction.onerror (a second reject, without effect) and the
\* transaction aborts
RequestError ==
    /\ transactions # <<>>
    /\ transactions[Len(transactions)].request = "pending"
    /\ transactions' = [transactions EXCEPT
                            ![Len(transactions)].request = "error",
                            ![Len(transactions)].state = "aborted",
                            ![Len(transactions)].settled = "rejected"]
    /\ promise' = [promise EXCEPT !.state = "rejected"]
    /\ UNCHANGED <<db, useLocalStorage, startupVars, now, storeVars, callVars,
                   twinVars, updating, startVars, editorVars>>

\* the transaction commits: transaction.oncomplete = () => resolve(), which
\* is without effect on a promise request.onsuccess has resolved; the
\* object store takes the effect of the request
TransactionComplete ==
    \E i \in DOMAIN transactions :
        /\ transactions[i].request = "success"
        /\ transactions[i].state = "active"
        /\ transactions' = [transactions EXCEPT ![i].state = "committed"]
        /\ indexedDB' = [indexedDB EXCEPT ![transactions[i].storeName] =
                             IDBRequest(@, transactions[i].operation).store]
        /\ updating' = IF /\ updating.pc = "read"
                          /\ transactions[i].storeName = "tasks"
                          /\ transactions[i].operation.op = "delete"
                          /\ transactions[i].operation.key = updating.id
                       THEN [updating EXCEPT !.deleted = TRUE]
                       ELSE updating
        /\ UNCHANGED <<db, useLocalStorage, startupVars, now, localStorage,
                       generated, callVars, twinVars, promise, startVars,
                       editorVars>>

\* the transaction aborts after its request succeeded (the commit fails):
\* an abort event, for which performTransaction registers no handler, and
\* no error event since no request is outstanding
TransactionAbort ==
    \E i \in DOMAIN transactions :
        /\ transactions[i].request = "success"
        /\ transactions[i].state = "active"
        /\ transactions' = [transactions EXCEPT ![i].state = "aborted"]
        /\ UNCHANGED <<db, useLocalStorage, startupVars, now, storeVars,
                       callVars, twinVars, promise, updating, startVars,
                       editorVars>>

\* clearAllData: the await of one store has resolved and the loop goes on
\* to the next store
ClearNext ==
    /\ promise.state = "pending"
    /\ promise.rest # <<>>
    /\ transactions[Len(transactions)].settled = "resolved"
    /\ transactions' = Append(transactions, Tx(Head(promise.rest), Clear))
    /\ promise' = [promise EXCEPT !.rest = Tail(@)]
    /\ UNCHANGED <<db, useLocalStorage, startupVars, now, storeVars, callVars,
                   twinVars, updating, startVars, editorVars>>

\* updateTaskStatus: `const task = await this.getTask(id)`
UpdateRead ==
    \E id \in KnownIds, completed \in BOOLEAN :
        /\ Route(This) = "idb"
        /\ Idle
        /\ updating.pc # "read"
        /\ updating' = IF Truthy(getTask(This, id).val)
                       THEN [pc |-> "read", id |-> id, completed |-> completed,
                             task |-> getTask(This, id).val, deleted |-> FALSE]
                       ELSE NotUpdating
        /\ UNCHANGED <<db, useLocalStorage, startupVars, now, storeVars,
                       callVars, twinVars, transactions, promise, startVars,
                       editorVars>>

\* updateTaskStatus: `task.completed = completed; task.updatedAt = ...;
\* await this.saveTask(task)` with the task that was read
UpdateWrite ==
    /\ updating.pc = "read"
    /\ BeginWrite("updateTaskStatus", This, "tasks",
                  PutOf("tasks", taskData(This,
                      withStatus(updating.task.v, updating.completed, now),
                      now)),
                  <<>>)
    /\ updating' = [updating EXCEPT !.pc = "write"]
    /\ UNCHANGED saves

\* the clock is read when a call begins: it advances between calls
TickIdle == Idle /\ Tick

\* writes of a new and of an existing record
TxNotes == {NoteInput(NoId, EmptyText, NoTime), NoteInput(1, FullText, NoTime)}
TxTasks == {TaskInput(NoId, FullTask), TaskInput(1, FullTask)}

NextTx ==
    \/ TickIdle
    \/ \E note \in TxNotes :
           /\ CanGenerate(note.id)
           /\ CallerWrite("saveNote", AfterId(This, note.id), "notes",
                          PutOf("notes", noteData(This, note, now)), <<>>)
    \/ \E id \in KnownIds :
           CallerWrite("deleteNote", This, "notes", Delete(id), <<>>)
    \/ \E task \in TxTasks :
           /\ CanGenerate(task.id)
           /\ CallerWrite("saveTask", AfterId(This, task.id), "tasks",
                          PutOf("tasks", taskData(This, task, now)), <<>>)
    \/ \E id \in KnownIds :
           CallerWrite("deleteTask", This, "tasks", Delete(id), <<>>)
    \/ \E g \in GraphInputs :
           CallerWrite("saveKnowledgeGraph", This, "knowledge_graph",
                       PutOf("knowledge_graph", graphData(g, now)), <<>>)
    \/ \E k \in SettingKeys, v \in SettingValues :
           CallerWrite("saveSetting", This, "settings",
                       PutOf("settings", settingData(k, v, now)), <<>>)
    \/ CallerWrite("clearAllData", This, Head(ClearOrder), Clear,
                   Tail(ClearOrder))
    \/ RequestSuccess
    \/ RequestError
    \/ TransactionComplete
    \/ TransactionAbort
    \/ ClearNext
    \/ UpdateRead
    \/ UpdateWrite

SpecTx == InitEq /\ [][NextTx]_vars

(***************************************************************************)
(* The editor specification: NoteEditor on the open structured backend,    *)
(* with one note persisted by an earlier session and loaded into the list. *)
(* A storage write the editor issues stays in `writes` until its           *)
(* transaction commits or fails; transactions on the notes store run in    *)
(* the order they were created.  The handler that awaited the write        *)
(* continues in the same step as the settlement (its loadNotes included).  *)
(***************************************************************************)
MaxInFlight == 2     \* editor writes that can be unsettled at once
MaxOpened == 2       \* note objects that become currentNote in a run
MaxEditorIds == 2    \* ids generateId() hands to the editor in a run

\* String.prototype.trim on strings whose only whitespace is " "
RECURSIVE trim(_)
trim(str) ==
    IF str = <<>> THEN <<>>
    ELSE IF Head(str) = " " THEN trim(Tail(str))
    ELSE IF str[Len(str)] = " " THEN trim(SubSeq(str, 1, Len(str) - 1))
    ELSE str

\* `titleEl.value.trim() || '无标题笔记'`
titleOrDefault(value) ==
    IF trim(value) # <<>> THEN trim(value) ELSE DefaultNoteTitle

\* Array.prototype.sort by updatedAt, newest first (the sort is stable)
RECURSIVE sortByUpdatedAt(_)
sortByUpdatedAt(arr) ==
    IF arr = <<>> THEN <<>>
    ELSE LET newest == CHOOSE i \in DOMAIN arr :
                           \A j \in DOMAIN arr :
                               \/ arr[j].updatedAt < arr[i].updatedAt
                               \/ arr[j].updatedAt = arr[i].updatedAt /\ i <= j
         IN  <<arr[newest]>>
             \o sortByUpdatedAt(SubSeq(arr, 1, newest - 1)
                                \o SubSeq(arr, newest + 1, Len(arr)))

\* loadNotes: `this.notes = await getNotes(); this.notes.sort(...)`
loadNotes(store) == sortByUpdatedAt(StoreGetAll(store).v)

\* the fields of a note object the editor and saveNote read
EditorNote(rec) ==
    [id |-> rec.id, title |-> rec.title, content |-> rec.content,
     tags |-> rec.tags, createdAt |-> rec.createdAt, updatedAt |-> rec.updatedAt]

hasUnsavedChanges ==
    /\ ~IsNull(currentNote)
    /\ \/ titleOrDefault(titleEl) # currentNote.title
       \/ editorEl # currentNote.content

EditorTitles == {<<>>, <<" ">>, <<"A">>}
EditorTexts == {<<>>, <<"c", "a", "t">>}

InitEditor ==
    /\ db = "handle"
    /\ useLocalStorage = FALSE
    /\ indexedDB = [EmptyIDB EXCEPT !.notes =
                        StorePut(EmptyStore, 1,
                                 noteData(FallbackManager,
                                          NoteInput(1, FullText, NoTime), 1))]
    /\ localStorage = EmptyLS
    /\ openRequest = "success"
    /\ openAttempts = 1
    /\ now = 1
    /\ generated = 0
    /\ lastOp = NoOp
    /\ lastRes = NoRes
    /\ lastRoute = "none"
    /\ roundTrip = 0
    /\ exported = NoDoc
    /\ saves = 0
    /\ twin = FallbackManager
    /\ twinRes = NoRes
    /\ transactions = <<>>
    /\ promise = NoPromise
    /\ updating = NotUpdating
    /\ modules = OtherModules
    /\ isInitialized = FALSE
    /\ waitPc = "storage"
    /\ elapsed = 0
    /\ currentNote = Null
    /\ titleEl = <<>>
    /\ editorEl = <<>>
    /\ noteList = loadNotes(indexedDB.notes)
    /\ unsavedMark = FALSE
    /\ writes = <<>>
    /\ serial = 0
    /\ savedIds = {}

restVars == <<db, useLocalStorage, localStorage, startupVars, lastOp, lastRes,
              lastRoute, roundTrip, exported, twinVars, transactions, promise,
              updating, startVars>>

\* createNewNote; when hasUnsavedChanges() the user confirms (a refusal
\* leaves everything as it is)
CreateNewNote ==
    /\ serial < MaxOpened
    /\ currentNote' = [id |-> NoId, title |-> <<>>, content |-> <<>>,
                       tags |-> <<>>, createdAt |-> now, updatedAt |-> now]
    /\ titleEl' = <<>>
    /\ editorEl' = <<>>
    /\ serial' = serial + 1
    /\ savedIds' = {}
    /\ UNCHANGED <<indexedDB, generated, now, saves, noteList, unsavedMark,
                   writes, restVars>>

\* openNote(noteId) from the list: getNote, the confirmation, and
\* `this.currentNote = note; this.updateEditor()`
OpenNote ==
    \E i \in DOMAIN noteList :
        /\ serial < MaxOpened
        /\ IsObj(getNote(This, noteList[i].id).val)
        /\ currentNote' = EditorNote(getNote(This, noteList[i].id).val.v)
        /\ titleEl' = currentNote'.title
        /\ editorEl' = currentNote'.content
        /\ serial' = serial + 1
        /\ savedIds' = {}
        /\ UNCHANGED <<indexedDB, generated, now, saves, noteList, unsavedMark,
                       writes, restVars>>

\* input event of the title field: handleTitleChange
TitleInput ==
    \E value \in EditorTitles \ {titleEl} :
        /\ titleEl' = value
        /\ unsavedMark' = TRUE
        /\ UNCHANGED <<indexedDB, generated, now, saves, currentNote, editorEl,
                       noteList, writes, serial, savedIds, restVars>>

\* input event of the textarea: handleEditorChange
EditorInput ==
    \E value \in EditorTexts \ {editorEl} :
        /\ editorEl' = value
        /\ unsavedMark' = TRUE
        /\ UNCHANGED <<indexedDB, generated, now, saves, currentNote, titleEl,
                       noteList, writes, serial, savedIds, restVars>>

\* the note object after the assignments saveCurrentNote makes before it
\* awaits
Edited ==
    [currentNote EXCEPT !.title = titleOrDefault(titleEl),
                        !.content = editorEl,
                        !.updatedAt = now]

\* saveCurrentNote up to its await: the note object takes the text of the
\* fields and saveNote puts noteData in a new transaction
saveCurrentNote(silent) ==
    /\ ~IsNull(currentNote)
    /\ Len(writes) < MaxInFlight
    /\ saves < MaxSaves
    /\ currentNote.id # NoId \/ generated < MaxEditorIds
    /\ saves' = saves + 1
    /\ currentNote' = Edited
    /\ generated' = AfterId(This, currentNote.id).generated
    /\ writes' = Append(writes,
                        [caller |-> "saveCurrentNote", silent |-> silent,
                         serial |-> serial,
                         operation |-> PutOf("notes",
                                             noteData(This, Edited, now))])
    /\ savedIds' = savedIds \cup {SaveId(This, currentNote.id)}
    /\ UNCHANGED <<indexedDB, now, titleEl, editorEl, noteList, unsavedMark,
                   serial, restVars>>

\* the save button or Ctrl+S
ManualSave == saveCurrentNote(FALSE)

\* the 30-second interval of setupAutoSave
AutoSave == hasUnsavedChanges /\ saveCurrentNote(TRUE)

\* NoteEditor.deleteNote(noteId) from the list, confirmed, up to its await
EditorDeleteNote ==
    \E i \in DOMAIN noteList :
        /\ Len(writes) < MaxInFlight
        /\ saves < MaxSaves
        /\ saves' = saves + 1
        /\ writes' = Append(writes,
                            [caller |-> "deleteNote", silent |-> FALSE,
                             serial |-> serial,
                             operation |-> Delete(noteList[i].id)])
        /\ UNCHANGED <<indexedDB, generated, now, currentNote, titleEl,
                       editorEl, noteList, unsavedMark, serial, savedIds,
                       restVars>>

\* the rest of saveCurrentNote after a resolved saveNote: a new note takes
\* the saved id, the list is reloaded, the button is marked as saved; with
\* currentNote null `this.currentNote.id` throws and the catch reports it
AfterSaved(w) ==
    IF IsNull(currentNote)
    THEN UNCHANGED <<currentNote, titleEl, editorEl, noteList, unsavedMark>>
    ELSE /\ currentNote' = IF currentNote.id = NoId
                           THEN [currentNote EXCEPT !.id = w.operation.key]
                           ELSE currentNote
         /\ noteList' = loadNotes(indexedDB'.notes)
         /\ unsavedMark' = FALSE
         /\ UNCHANGED <<titleEl, editorEl>>

\* the rest of NoteEditor.deleteNote after a resolved delete
AfterDeleted(w) ==
    /\ IF ~IsNull(currentNote) /\ currentNote.id = w.operation.key
       THEN currentNote' = Null /\ titleEl' = <<>> /\ editorEl' = <<>>
       ELSE UNCHANGED <<currentNote, titleEl, editorEl>>
    /\ noteList' = loadNotes(indexedDB'.notes)
    /\ UNCHANGED unsavedMark

\* the oldest unsettled write commits and its promise resolves
WriteCommits ==
    /\ writes # <<>>
    /\ writes' = Tail(writes)
    /\ indexedDB' = [indexedDB EXCEPT !.notes =
                         IDBRequest(@, Head(writes).operation).store]
    /\ IF Head(writes).caller = "saveCurrentNote"
       THEN AfterSaved(Head(writes))
       ELSE AfterDeleted(Head(writes))
    /\ UNCHANGED <<generated, now, saves, serial, savedIds, restVars>>

\* the oldest unsettled write fails and its promise rejects: the catch of
\* the handler logs and alerts
WriteFails ==
    /\ writes # <<>>
    /\ writes' = Tail(writes)
    /\ UNCHANGED <<indexedDB, generated, now, saves, currentNote, titleEl,
                   editorEl, noteList, unsavedMark, serial, savedIds, restVars>>

NextEditor ==
    \/ CreateNewNote
    \/ OpenNote
    \/ TitleInput
    \/ EditorInput
    \/ ManualSave
    \/ AutoSave
    \/ EditorDeleteNote
    \/ WriteCommits
    \/ WriteFails

SpecEditor == InitEditor /\ [][NextEditor]_vars

(***************************************************************************)
(* Views used by the properties.                                           *)
(***************************************************************************)
\* the manager in the next state
ThisNext == [db |-> db', useLocalStorage |-> useLocalStorage',
             indexedDB |-> indexedDB', localStorage |-> localStorage',
             generated |-> generated']

\* the step is a facade call (every other step leaves the call record alone)
IsCall == callVars' # callVars

\* the records of a collection as the selected backend holds them
Collection(sm, storeName) ==
    CASE Route(sm) = "idb" ->
            {sm.indexedDB[storeName][k] : k \in DOMAIN sm.indexedDB[storeName]}
      [] Route(sm) = "ls" ->
            IF IsArr(sm.localStorage[storeName])
            THEN Range(sm.localStorage[storeName].v)
            ELSE IF IsObj(sm.localStorage[storeName])
            THEN {sm.localStorage[storeName].v}
            ELSE {}
      [] OTHER -> {}

Collections(sm) == [s \in StoreNames |-> Collection(sm, s)]

IdsOf(recs) == {r.id : r \in recs}
NoteContents(recs) ==
    {[id |-> r.id, title |-> r.title, content |-> r.content, tags |-> r.tags] :
     r \in recs}
TaskContents(recs) ==
    {[id |-> r.id, title |-> r.title, description |-> r.description] : r \in recs}

\* the records of an array held in an export document
DocRecords(val) ==
    IF IsArr(val) THEN {x \in Range(val.v) : ~IsNull(x)} ELSE {}

(***************************************************************************)
(* C1. Fallback equivalence: the same call on the fallback store has the   *)
(* same outcome (resolved or rejected, and the same value) as on the      *)
(* structured store.                                                       *)
(***************************************************************************)
C1_FallbackEquivalence ==
    /\ twinRes.ok = lastRes.ok
    /\ lastRes.ok => twinRes.val = lastRes.val

(***************************************************************************)
(* C2. saveNote(N) resolves, and getNote of the returned id then returns a *)
(* note whose wordCount is the length of its content and whose updatedAt   *)
(* is not before its createdAt.                                            *)
(***************************************************************************)
NoteWellFormed(g) ==
    /\ g.ok
    /\ IsObj(g.val)
    /\ g.val.v.wordCount = Len(g.val.v.content)
    /\ g.val.v.updatedAt >= g.val.v.createdAt

C2_SaveThenGet ==
    (lastOp.name = "saveNote" /\ lastRoute # "none") =>
        /\ lastRes.ok
        /\ NoteWellFormed(getNote(This, lastRes.val.v.id))

(***************************************************************************)
(* C3. Record lifecycle: a stored note or task stays stored, with the same *)
(* fields, across every step except a save or status update of its id (an *)
(* import of a document holding its id saves it), a delete of its id, or   *)
(* clearAllData.                                                           *)
(***************************************************************************)
ImportSaves(storeName, id) ==
    /\ lastOp'.name = "importData"
    /\ lastOp'.flag
    /\ \E doc \in ImportDocs :
          /\ doc.data.t # "undefined"
          /\ doc.exportDate = lastOp'.id
          /\ id \in IdsOf(DocRecords(doc.data.v[storeName]))

MayChange(storeName, id) ==
    /\ IsCall
    /\ \/ lastOp'.name = "clearAllData"
       \/ ImportSaves(storeName, id)
       \/ /\ storeName = "notes"
          /\ lastOp'.name \in {"saveNote", "deleteNote"}
          /\ lastOp'.id = id
       \/ /\ storeName = "tasks"
          /\ lastOp'.name \in {"saveTask", "deleteTask", "updateTaskStatus"}
          /\ lastOp'.id = id

C3_RecordLifecycle ==
    [][\A s \in {"notes", "tasks"} :
         \A r \in Collection(This, s) :
            r \in Collection(ThisNext, s) \/ MayChange(s, r.id)]_vars

C3_Witness ==
    /\ lastOp.name = "deleteTask"
    /\ lastRes.ok
    /\ \E r \in Collection(This, "tasks") : r.id # lastOp.id

(***************************************************************************)
(* C4. Backend selection: an open database handle and the fallback flag    *)
(* never hold together.                                                    *)
(***************************************************************************)
C4_BackendExclusive == ~(db # "null" /\ useLocalStorage)

(***************************************************************************)
(* C5. Degradation is permanent: once useLocalStorage is true it stays     *)
(* true, every later call runs on the fallback store and leaves the        *)
(* structured store alone, and the open is not attempted again.            *)
(***************************************************************************)
C5_DegradationPermanent ==
    [][useLocalStorage =>
         /\ useLocalStorage'
         /\ openAttempts' = openAttempts
         /\ IsCall => (lastRoute' = "ls" /\ indexedDB' = indexedDB)]_vars

C5_Witness ==
    /\ useLocalStorage
    /\ db # "null"
    /\ lastOp.name = "getNotes"
    /\ lastRoute = "ls"

(***************************************************************************)
(* C6. While no graph has been saved, getKnowledgeGraph() resolves with    *)
(* the empty graph and stores nothing.                                     *)
(***************************************************************************)
C6_EmptyGraphRead ==
    (lastOp.name = "getKnowledgeGraph" /\ lastRoute # "none" /\ saves = 0) =>
        /\ lastRes.ok
        /\ lastRes.val = Obj(EmptyGraph)
        /\ DOMAIN indexedDB.knowledge_graph = {}
        /\ ~IsObj(localStorage.knowledge_graph)

(***************************************************************************)
(* C7. saveTask(T) resolves; updateTaskStatus(T.id, true) right after it   *)
(* leaves a task that getTask returns with completed = true and an         *)
(* updatedAt strictly greater than the one the save returned.              *)
(***************************************************************************)
StatusUpdated(g, before) ==
    /\ g.ok
    /\ IsObj(g.val)
    /\ g.val.v.completed
    /\ g.val.v.updatedAt > before

C7_StatusUpdate ==
    [][IsCall =>
         /\ (lastOp'.name = "saveTask" /\ lastRoute' # "none") => lastRes'.ok
         /\ ( /\ lastOp.name = "saveTask"
              /\ lastRes.ok
              /\ lastOp'.name = "updateTaskStatus"
              /\ lastOp'.flag
              /\ lastOp'.id = lastRes.val.v.id )
            => StatusUpdated(getTask(ThisNext, lastOp'.id),
                             lastRes.val.v.updatedAt)]_vars

(***************************************************************************)
(* C8. updateTaskStatus of an id that is not in the tasks collection       *)
(* resolves with the absent value and changes no collection.               *)
(***************************************************************************)
C8_UpdateAbsentNoOp ==
    [][( /\ IsCall
         /\ lastOp'.name = "updateTaskStatus"
         /\ lastRoute' # "none"
         /\ lastOp'.id \notin IdsOf(Collection(This, "tasks")) )
       => /\ lastRes'.ok
          /\ lastRes'.val = Undefined
          /\ indexedDB' = indexedDB
          /\ localStorage' = localStorage]_vars

C8_Witness ==
    /\ lastOp.name = "updateTaskStatus"
    /\ lastRoute = "idb"
    /\ lastRes.ok
    /\ lastRes.val = Undefined
    /\ Collection(This, "tasks") # {}

(***************************************************************************)
(* C9. Round trip: the document exportData returns holds the persisted     *)
(* notes and tasks, and after clearAllData and importData of that document *)
(* the persisted notes have the same ids, titles, contents and tags, and   *)
(* the persisted tasks the same ids, titles and descriptions.              *)
(***************************************************************************)
C9_RoundTrip ==
    roundTrip \in {1, 3} =>
        /\ NoteContents(Collection(This, "notes"))
             = NoteContents(DocRecords(exported.data.v.notes))
        /\ TaskContents(Collection(This, "tasks"))
             = TaskContents(DocRecords(exported.data.v.tasks))

C9_Witness ==
    /\ roundTrip = 3
    /\ lastRes.ok
    /\ Collection(This, "notes") # {}
    /\ Collection(This, "tasks") # {}

(***************************************************************************)
(* C10. deleteNote and deleteTask of an id that is not in the collection   *)
(* resolve and leave all four collections as they were.                    *)
(***************************************************************************)
DeletedFrom(name) == IF name = "deleteNote" THEN "notes" ELSE "tasks"

C10_DeleteAbsentNoOp ==
    [][( /\ IsCall
         /\ lastOp'.name \in {"deleteNote", "deleteTask"}
         /\ lastRoute' # "none"
         /\ lastOp'.id \notin IdsOf(Collection(This, DeletedFrom(lastOp'.name))) )
       => /\ lastRes'.ok
          /\ Collections(ThisNext) = Collections(This)]_vars

C10_Witness ==
    /\ lastOp.name = "deleteNote"
    /\ lastRes.ok
    /\ saves = 2
    /\ Cardinality(Collection(This, "notes")) = 1
    /\ lastOp.id \notin IdsOf(Collection(This, "notes"))

(***************************************************************************)
(* C11. After deleteNote(id) has resolved, getNotes() holds no note with   *)
(* that id, and in any later step a note id enters the result of           *)
(* getNotes() only by a saveNote carrying that id (issued by the caller or *)
(* by importData for a note of its document).                              *)
(***************************************************************************)
NoteIdsRead(sm) ==
    IF getNotes(sm).ok /\ IsArr(getNotes(sm).val)
    THEN IdsOf(Range(getNotes(sm).val.v))
    ELSE {}

C11_DeletedStaysAbsent ==
    [][/\ (IsCall /\ lastOp'.name = "deleteNote" /\ lastRes'.ok)
            => lastOp'.id \notin NoteIdsRead(ThisNext)
       /\ \A id \in NoteIdsRead(ThisNext) \ NoteIdsRead(This) :
            /\ IsCall
            /\ \/ lastOp'.name = "saveNote" /\ lastOp'.id \in {id, NoId}
               \/ ImportSaves("notes", id)]_vars

C11_Witness ==
    /\ lastOp.name = "deleteNote"
    /\ lastRes.ok
    /\ lastRoute = "idb"
    /\ saves = 2
    /\ generated = 1
    /\ lastOp.id = GenBase + 1
    /\ Collection(This, "tasks") = {}
    /\ NoteIdsRead(This) = {}

(***************************************************************************)
(* C12. searchNotes(query) resolves with exactly the persisted notes for   *)
(* which the lower-cased query is a substring of the lower-cased title, of *)
(* the lower-cased content or of a lower-cased tag, in the order of        *)
(* getNotes(), and leaves the four collections as they were.               *)
(***************************************************************************)
IsSubstring(sub, str) ==
    \E a \in 1..(Len(str) + 1), b \in 0..Len(str) : SubSeq(str, a, b) = sub

Selected(note, query) ==
    \/ IsSubstring(toLowerCase(query), toLowerCase(note.title))
    \/ IsSubstring(toLowerCase(query), toLowerCase(note.content))
    \/ \E tag \in Range(note.tags) :
          IsSubstring(toLowerCase(query), toLowerCase(tag))

PositionIn(seq, x) == CHOOSE k \in DOMAIN seq : seq[k] = x

SearchExact(r, all, query) ==
    /\ r.ok
    /\ IsArr(r.val)
    /\ Range(r.val.v) = {n \in Range(all) : Selected(n, query)}
    /\ \A i, j \in DOMAIN r.val.v :
          i < j => PositionIn(all, r.val.v[i]) < PositionIn(all, r.val.v[j])
    /\ Collections(r.sm) = Collections(This)
    /\ r.sm.indexedDB = indexedDB

C12_SearchExact ==
    Route(This) # "none" =>
        \A q \in Queries :
            SearchExact(searchNotes(This, q), getNotes(This).val.v, q)

C12_Witness ==
    /\ lastOp.name = "searchNotes"
    /\ lastRes.ok
    /\ Len(lastRes.val.v) = 1
    /\ Cardinality(Collection(This, "notes")) = 2
    /\ \E n \in Collection(This, "notes") : Selected(n, <<"n">>)

(***************************************************************************)
(* C13. getNote and getTask of an id that is not stored resolve with the   *)
(* absent value; getSetting(key, default) resolves with the stored value   *)
(* when a setting with that key is stored, also a falsy one, and with      *)
(* default otherwise.                                                      *)
(***************************************************************************)
LookupIds == KnownIds \cup {GenBase}
LookupKeys == SettingKeys \cup {2}
LookupDefaults == {Null, Value(5)}

ResolvedWith(r, val) == r.ok /\ r.val = val

StoredOrDefault(key, default) ==
    IF \E s \in Collection(This, "settings") : s.key = key
    THEN (CHOOSE s \in Collection(This, "settings") : s.key = key).value
    ELSE default

C13_MissingLookups ==
    Route(This) # "none" =>
        /\ \A id \in LookupIds \ IdsOf(Collection(This, "notes")) :
              ResolvedWith(getNote(This, id), Undefined)
        /\ \A id \in LookupIds \ IdsOf(Collection(This, "tasks")) :
              ResolvedWith(getTask(This, id), Undefined)
        /\ \A k \in LookupKeys, d \in LookupDefaults :
              ResolvedWith(getSetting(This, k, d), StoredOrDefault(k, d))

C13_Witness ==
    /\ lastOp.name = "getSetting"
    /\ lastRes.ok
    /\ lastRes.val = Value(0)
    /\ \E s \in Collection(This, "settings") : s.value = Value(0)

(***************************************************************************)
(* C14. importData of a document without `data` rejects with the import    *)
(* error and writes nothing.                                               *)
(***************************************************************************)
C14_MalformedImport ==
    [][(IsCall /\ lastOp'.name = "importData" /\ ~lastOp'.flag)
       => /\ ~lastRes'.ok
          /\ lastRes'.val = ImportError
          /\ indexedDB' = indexedDB
          /\ localStorage' = localStorage]_vars

C14_Witness ==
    /\ lastOp.name = "importData"
    /\ ~lastOp.flag
    /\ ~lastRes.ok
    /\ Collection(This, "notes") # {}
    /\ Collection(This, "tasks") # {}

(***************************************************************************)
(* C15. importData of a document whose k-th save fails rejects with the    *)
(* error of that save; the records before the k-th are persisted, every    *)
(* other stored note is as before, and no task, graph or setting of the    *)
(* document is written.                                                    *)
(***************************************************************************)
\* the notes of PartialDoc saved before the failing save: the first note on
\* the structured store (the null element fails), none where every save fails
WrittenBefore(route) ==
    IF route = "idb" THEN {PartialDoc.data.v.notes.v[1]} ELSE {}

IsPartialImport(op) == op.name = "importData" /\ op.flag /\ op.id = NoTime

C15_PartialImport ==
    [][(IsCall /\ IsPartialImport(lastOp'))
       => /\ ~lastRes'.ok
          /\ lastRes'.val = TypeError
          /\ \A s \in {"tasks", "knowledge_graph", "settings"} :
                Collection(ThisNext, s) = Collection(This, s)
          /\ NoteContents({r \in Collection(ThisNext, "notes") :
                             r.id \in IdsOf(WrittenBefore(lastRoute'))})
               = NoteContents(WrittenBefore(lastRoute'))
          /\ {r \in Collection(ThisNext, "notes") :
                r.id \notin IdsOf(WrittenBefore(lastRoute'))}
               = {r \in Collection(This, "notes") :
                    r.id \notin IdsOf(WrittenBefore(lastRoute'))}]_vars

C15_Witness ==
    /\ IsPartialImport(lastOp)
    /\ ~lastRes.ok
    /\ lastRoute = "idb"
    /\ saves = 1
    /\ IdsOf(Collection(This, "notes")) = {1}
    /\ Collection(This, "tasks") = {}

(***************************************************************************)
(* C16. After clearAllData() has completed, getNotes(), getTasks() and     *)
(* getAllSettings() resolve with the empty sequence, getKnowledgeGraph()   *)
(* with the empty graph, and a saveNote followed by getNote of the         *)
(* returned id yields the saved note.                                      *)
(***************************************************************************)
SavedAndRead(s) ==
    /\ s.ok
    /\ ResolvedWith(getNote(s.sm, s.val.v.id), s.val)

C16_ClearedStore ==
    (lastOp.name = "clearAllData" /\ lastRoute # "none") =>
        /\ lastRes.ok
        /\ ResolvedWith(getNotes(This), Arr(<<>>))
        /\ ResolvedWith(getTasks(This), Arr(<<>>))
        /\ ResolvedWith(getAllSettings(This), Arr(<<>>))
        /\ ResolvedWith(getKnowledgeGraph(This), Obj(EmptyGraph))
        /\ \A note \in NoteInputs : SavedAndRead(saveNote(This, note, now))

(***************************************************************************)
(* C17. getStorageStats() counts the persisted notes and tasks, the tasks  *)
(* with completed true and the sum of the notes' wordCount, and its        *)
(* completionRate is completedTasks / totalTasks * 100 rounded to the      *)
(* nearest integer (halves up), 0 without tasks; so                        *)
(* 0 <= completedTasks <= totalTasks and 0 <= completionRate <= 100.       *)
(***************************************************************************)
RECURSIVE WordsOf(_)
WordsOf(notes) ==
    IF notes = {} THEN 0
    ELSE (CHOOSE n \in notes : TRUE).wordCount
         + WordsOf(notes \ {CHOOSE n \in notes : TRUE})

\* rate is the integer nearest to 100 * completed / total
IsRoundedRate(rate, completed, total) ==
    /\ rate \in 0..100
    /\ IF total > 0
       THEN /\ 2 * total * rate - total <= 200 * completed
            /\ 200 * completed < 2 * total * rate + total
       ELSE rate = 0

StatsExact(r) ==
    /\ r.ok
    /\ r.val.totalNotes = Cardinality(Collection(This, "notes"))
    /\ r.val.totalTasks = Cardinality(Collection(This, "tasks"))
    /\ r.val.completedTasks
         = Cardinality({k \in Collection(This, "tasks") : k.completed})
    /\ r.val.totalWords = WordsOf(Collection(This, "notes"))
    /\ IsRoundedRate(r.val.completionRate, r.val.completedTasks, r.val.totalTasks)
    /\ 0 <= r.val.completedTasks
    /\ r.val.completedTasks <= r.val.totalTasks

C17_StorageStats ==
    /\ Route(This) # "none" => StatsExact(getStorageStats(This))
    /\ \A total \in 0..MaxTasks : \A completed \in 0..total :
          IsRoundedRate(completionRate(completed, total), completed, total)

C17_Witness ==
    /\ lastOp.name = "getStorageStats"
    /\ lastRes.ok
    /\ lastRes.val.totalTasks = 1
    /\ lastRes.val.completedTasks = 1
    /\ lastRes.val.completionRate = 100

(***************************************************************************)
(* C18. saveNote and saveTask resolve with a record that is stored under   *)
(* the given id (a new id when none is given) with the caller's createdAt, *)
(* replace any record of that id and leave every other record alone; no    *)
(* collection holds two records with one id.                               *)
(***************************************************************************)
Upserted(storeName, input, r) ==
    /\ r.ok
    /\ input.id # NoId => r.val.v.id = input.id
    /\ input.id = NoId => r.val.v.id \notin IdsOf(Collection(This, storeName))
    /\ input.createdAt # NoTime => r.val.v.createdAt = input.createdAt
    /\ {x \in Collection(r.sm, storeName) : x.id = r.val.v.id} = {r.val.v}
    /\ {x \in Collection(r.sm, storeName) : x.id # r.val.v.id}
         = {x \in Collection(This, storeName) : x.id # r.val.v.id}

C18_UpsertById ==
    Route(This) # "none" =>
        /\ \A note \in NoteInputs : Upserted("notes", note, saveNote(This, note, now))
        /\ \A task \in TaskInputs : Upserted("tasks", task, saveTask(This, task, now))
        /\ \A s \in {"notes", "tasks"} :
              Cardinality(IdsOf(Collection(This, s)))
                = Cardinality(Collection(This, s))

(***************************************************************************)
(* C19. Across every step the updatedAt of the stored note or task of an   *)
(* id does not decrease, the clock being non-decreasing.                   *)
(***************************************************************************)
C19_UpdatedAtMonotone ==
    [][\A s \in {"notes", "tasks"} :
         \A r \in Collection(This, s), q \in Collection(ThisNext, s) :
            r.id = q.id => q.updatedAt >= r.updatedAt]_vars

C19_Witness ==
    /\ lastOp.name = "updateTaskStatus"
    /\ lastRes.ok
    /\ \E k \in Collection(This, "tasks") :
          /\ k.id = lastOp.id
          /\ k.updatedAt > k.createdAt

(***************************************************************************)
(* C20. saveKnowledgeGraph(g) resolves and getKnowledgeGraph() then        *)
(* returns the nodes and links of g; the knowledge_graph collection holds  *)
(* at most one record, and its key is "main_graph".                        *)
(***************************************************************************)
GraphRead(r, g) ==
    /\ r.ok
    /\ IsObj(r.val)
    /\ r.val.v.nodes = g.nodes
    /\ r.val.v.links = g.links

GraphSavedAndRead(s, g) == s.ok /\ GraphRead(getKnowledgeGraph(s.sm), g)

SingleGraph(sm) ==
    /\ Cardinality(Collection(sm, "knowledge_graph")) <= 1
    /\ \A g \in Collection(sm, "knowledge_graph") :
          "id" \in DOMAIN g /\ g.id = "main_graph"

C20_SingleGraph ==
    Route(This) # "none" =>
        /\ \A g \in GraphInputs :
              GraphSavedAndRead(saveKnowledgeGraph(This, g, now), g)
        /\ SingleGraph(This)

(***************************************************************************)
(* C21. A facade write is reported as successful only if it was committed: *)
(* under the structured backend the promise of saveNote, saveTask,         *)
(* saveKnowledgeGraph, saveSetting, deleteNote, deleteTask or clearAllData *)
(* is never resolved when a transaction of the call has aborted; an abort, *)
(* also one after the request itself succeeded, leaves the promise         *)
(* rejected.                                                               *)
(***************************************************************************)
C21_CommittedWrites ==
    promise.state = "resolved" =>
        \A i \in DOMAIN transactions : transactions[i].state # "aborted"

(***************************************************************************)
(* C29. A deleted task is never re-created by a status update: when        *)
(* deleteTask(id) has committed between the read and the write of          *)
(* updateTaskStatus(id, c) and the update has completed too, the tasks     *)
(* collection holds no task with that id.                                  *)
(***************************************************************************)
C29_DeletedStaysDeleted ==
    ( /\ updating.pc = "write"
      /\ updating.deleted
      /\ promise.name = "updateTaskStatus"
      /\ promise.state = "resolved"
      /\ transactions[1].state = "committed" )
    => updating.id \notin DOMAIN indexedDB.tasks

(***************************************************************************)
(* C26. Startup liveness: on every execution in which timers fire, also    *)
(* one in which the open request never calls back, a backend is eventually *)
(* selected (db # null or useLocalStorage = true), and waitForModules      *)
(* terminates, by returning or by throwing.                                *)
(***************************************************************************)
C26_StartupLiveness ==
    /\ <>BackendSelected
    /\ <>(waitPc \in {"returned", "thrown"})

(***************************************************************************)
(* C27. No facade operation runs while no backend is selected: whenever    *)
(* performTransaction executes, db is an open handle or useLocalStorage is *)
(* true.  Stated for the reads NoteEditor.init and TaskManager.init issue  *)
(* at construction time (getNotes, getTasks): they run with a backend      *)
(* selected and are handed to a backend.                                   *)
(***************************************************************************)
C27_BackendBeforeCalls ==
    [][(IsCall /\ lastOp'.name \in {"getNotes", "getTasks"})
           => /\ BackendSelected
              /\ lastRoute' # "none"]_vars

(***************************************************************************)
(* C23. Under the fallback backend the stored entry of each of the         *)
(* collections notes, tasks and settings is, in every reachable state,     *)
(* either absent or the serialization of an array of records, never of a   *)
(* single record or of another value, whatever facade operations ran.      *)
(***************************************************************************)
ArrayOfRecords(entry) ==
    /\ IsArr(entry)
    /\ \A i \in DOMAIN entry.v : ~IsNull(entry.v[i])

C23_FallbackEntries ==
    useLocalStorage =>
        \A name \in {"notes", "tasks", "settings"} :
            \/ localStorage[name] = Null
            \/ ArrayOfRecords(localStorage[name])

\* a read by id on the fallback backend, with the entry of its collection
\* present
C23_Witness ==
    /\ useLocalStorage
    /\ lastRoute = "ls"
    /\ \/ lastOp.name = "getNote" /\ localStorage.notes # Null
       \/ lastOp.name = "getTask" /\ localStorage.tasks # Null
       \/ lastOp.name = "getSetting" /\ localStorage.settings # Null

(***************************************************************************)
(* C24. Each facade operation other than importData and clearAllData       *)
(* changes at most one collection, its own: note operations leave tasks,   *)
(* knowledge_graph and settings unchanged, task operations leave notes     *)
(* unchanged, and so on.  In particular deleteNote(id) leaves every task   *)
(* unchanged, also the tasks whose relatedNoteId is id.                    *)
(***************************************************************************)
CollectionOf(name) ==
    CASE name \in {"saveNote", "getNotes", "getNote", "deleteNote",
                   "searchNotes"} -> "notes"
      [] name \in {"saveTask", "getTasks", "getTask", "deleteTask",
                   "updateTaskStatus"} -> "tasks"
      [] name \in {"saveKnowledgeGraph", "getKnowledgeGraph"} -> "knowledge_graph"
      [] name \in {"saveSetting", "getSetting"} -> "settings"
      [] OTHER -> "none"

Changed == {s \in StoreNames : Collection(ThisNext, s) # Collection(This, s)}

C24_OneCollection ==
    [][(IsCall /\ lastOp'.name \notin {"importData", "clearAllData"})
           => /\ Cardinality(Changed) <= 1
              /\ CollectionOf(lastOp'.name) # "none"
                     => Changed \subseteq {CollectionOf(lastOp'.name)}]_vars

\* deleteNote(1) has resolved and a task that refers to note 1 is stored
C24_Witness ==
    /\ lastOp.name = "deleteNote"
    /\ lastOp.id = 1
    /\ lastRes.ok
    /\ lastRoute = "idb"
    /\ \E task \in Collection(This, "tasks") : task.relatedNoteId = 1

(***************************************************************************)
(* C25. Under either backend exportData() resolves with a document of      *)
(* version "1.0" whose data.notes, data.tasks and data.settings are        *)
(* exactly the persisted records and whose data.knowledgeGraph is the      *)
(* persisted graph, or the empty graph when none is persisted; and it      *)
(* leaves all four collections unchanged.                                  *)
(***************************************************************************)
GraphOrEmpty(val, graphs) ==
    IF graphs = {} THEN val = Obj(EmptyGraph)
    ELSE IsObj(val) /\ val.v \in graphs

ExportExact(r, sm) ==
    /\ r.ok
    /\ r.val.version = "1.0"
    /\ \A name \in {"notes", "tasks", "settings"} :
          /\ IsArr(r.val.data.v[name])
          /\ Range(r.val.data.v[name].v) = Collection(sm, name)
          /\ Len(r.val.data.v[name].v) = Cardinality(Collection(sm, name))
    /\ GraphOrEmpty(r.val.data.v.knowledgeGraph,
                    Collection(sm, "knowledge_graph"))

C25_ExportExact ==
    [][(IsCall /\ lastOp'.name = "exportData" /\ lastRoute' # "none")
           => /\ ExportExact(lastRes', This)
              /\ Collections(ThisNext) = Collections(This)]_vars

(***************************************************************************)
(* C22. The application never has two writes to the same note record in    *)
(* flight at once: across every interleaving of the manual save, the       *)
(* auto-save timer and deleteNote, a second storage write for a note is    *)
(* issued only after the previous write for it has settled.  Stated for    *)
(* the writes of saveCurrentNote: no two unsettled saves put the same id.  *)
(***************************************************************************)
C22_SerializedWrites ==
    \A i, j \in DOMAIN writes :
        ( /\ i < j
          /\ writes[i].caller = "saveCurrentNote"
          /\ writes[j].caller = "saveCurrentNote" )
        => writes[i].operation.key # writes[j].operation.key

(***************************************************************************)
(* C28. Saving a newly created note (currentNote.id = null) through the    *)
(* editor creates exactly one persisted note: whatever saveCurrentNote     *)
(* invocations ran on the same new note, the notes collection holds at     *)
(* most one record that was saved from it.                                 *)
(***************************************************************************)
C28_OneNotePerNewNote ==
    Cardinality(savedIds \cap DOMAIN indexedDB.notes) <= 1

(***************************************************************************)
(* C30. Unsaved edits are never reported as saved: when the storage write  *)
(* issued by saveCurrentNote for the current note fails, its text is not   *)
(* what is persisted and no later save of the note is still unsettled,     *)
(* hasUnsavedChanges() is true afterwards.                                 *)
(***************************************************************************)
Persisted(rec) ==
    /\ rec.id \in DOMAIN indexedDB.notes
    /\ indexedDB.notes[rec.id].title = rec.title
    /\ indexedDB.notes[rec.id].content = rec.content

SaveOfCurrentFailed ==
    /\ WriteFails
    /\ Head(writes).caller = "saveCurrentNote"
    /\ Head(writes).serial = serial
    /\ ~Persisted(Head(writes).operation.rec)
    /\ \A i \in DOMAIN writes' : writes'[i].serial # serial

C30_FailedSaveStaysUnsaved ==
    [][SaveOfCurrentFailed => hasUnsavedChanges']_vars
====
